---------------------------- MODULE Spec2Model ----------------------------
(***************************************************************************)
(* Model of the WoodpeckerOnline grading core (cmd/server/main.go):        *)
(*   - normalizeSAN, the SAN normalizer                                    *)
(*   - gradeLine, the flat-mode line grader                                *)
(*   - saveProgress / handleGradeLine, the progress recorder               *)
(*                                                                         *)
(* A Go string is modelled as a sequence of one-character strings, so      *)
(* that the normalizer's character-level work is computed, not assumed.    *)
(***************************************************************************)
EXTENDS Integers, Sequences, FiniteSets, TLC

(***************************************************************************)
(* Bounds of the model                                                     *)
(***************************************************************************)
\* longest free-form string handed to normalizeSAN
MaxLen == 4
\* longest flat solution line
MaxSol == 3
\* longest typed move list
MaxTyped == 4
\* most grade-line requests in one behaviour
MaxCalls == 3
\* last second the clock reaches
MaxClock == 3

(***************************************************************************)
(* Strings                                                                 *)
(***************************************************************************)
UpperCase == <<"A","B","C","D","E","F","G","H","I","J","K","L","M",
               "N","O","P","Q","R","S","T","U","V","W","X","Y","Z">>
LowerCase == <<"a","b","c","d","e","f","g","h","i","j","k","l","m",
               "n","o","p","q","r","s","t","u","v","w","x","y","z">>

\* unicode.ToLower on one (ASCII) character
ToLowerChar(c) ==
    IF \E k \in 1..26 : UpperCase[k] = c
    THEN LowerCase[CHOOSE k \in 1..26 : UpperCase[k] = c]
    ELSE c

\* strings.ToLower
ToLower(s) == [k \in 1..Len(s) |-> ToLowerChar(s[k])]

\* unicode.IsSpace, on the ASCII white space a TLA+ string can spell
IsSpace(c) == c \in {" ", "\t", "\n", "\r", "\f"}

IsDigit(c) == c \in {"0","1","2","3","4","5","6","7","8","9"}

RECURSIVE TrimLeft(_)
TrimLeft(s) ==
    IF s # <<>> /\ IsSpace(Head(s)) THEN TrimLeft(Tail(s)) ELSE s

RECURSIVE TrimRight(_)
TrimRight(s) ==
    IF s # <<>> /\ IsSpace(s[Len(s)])
    THEN TrimRight(SubSeq(s, 1, Len(s) - 1))
    ELSE s

\* strings.TrimSpace
TrimSpace(s) == TrimRight(TrimLeft(s))

\* strings.ReplaceAll(s, old, new) for a non-empty old: the non-overlapping
\* occurrences of old, found left to right, are replaced by new
RECURSIVE ReplaceAll(_, _, _)
ReplaceAll(s, old, new) ==
    IF Len(s) < Len(old) THEN s
    ELSE IF SubSeq(s, 1, Len(old)) = old
         THEN new \o ReplaceAll(SubSeq(s, Len(old) + 1, Len(s)), old, new)
         ELSE <<Head(s)>> \o ReplaceAll(Tail(s), old, new)

\* strings.Contains(s, c) for a one-character c
Contains(s, c) == \E k \in 1..Len(s) : s[k] = c

\* strings.Split(s, c) for a one-character separator c: the pieces between
\* the separators, one more piece than there are separators
RECURSIVE Split(_, _)
Split(s, c) ==
    IF ~ Contains(s, c) THEN <<s>>
    ELSE LET k == CHOOSE j \in 1..Len(s) :
                      s[j] = c /\ \A h \in 1..(j - 1) : s[h] # c
         IN  <<SubSeq(s, 1, k - 1)>> \o Split(SubSeq(s, k + 1, Len(s)), c)

(***************************************************************************)
(* normalizeSAN                                                            *)
(***************************************************************************)
\* the castling step with the two replacements in the wrong order
UnifyCastlingShortFirst(s) ==
    ReplaceAll(ReplaceAll(s, <<"0","-","0">>, <<"o","-","o">>),
               <<"0","-","0","-","0">>, <<"o","-","o","-","o">>)

\* "Accept 0-0 = O-O, 0-0-0 = O-O-O"
UnifyCastling(s) ==
    ReplaceAll(ReplaceAll(s, <<"0","-","0","-","0">>, <<"o","-","o","-","o">>),
               <<"0","-","0">>, <<"o","-","o">>)

\* the annotation step that forgets the check marker
StripAnnotationsKeepCheck(s) ==
    ReplaceAll(ReplaceAll(ReplaceAll(s, <<"#">>, <<>>), <<"!">>, <<>>),
               <<"?">>, <<>>)

\* "Strip +, #, !?"
StripAnnotations(s) ==
    LET s1 == ReplaceAll(s,  <<"+">>, <<>>)
        s2 == ReplaceAll(s1, <<"#">>, <<>>)
        s3 == ReplaceAll(s2, <<"!">>, <<>>)
        s4 == ReplaceAll(s3, <<"?">>, <<>>)
        s5 == ReplaceAll(s4, <<"!","?">>, <<>>)
    IN  ReplaceAll(s5, <<"?","!">>, <<>>)

\* "Remove move numbers and ellipses": only the dots go here
StripDots(s) ==
    LET s1 == ReplaceAll(s,  <<".",".",".">>, <<>>)
        s2 == ReplaceAll(s1, <<".",".">>, <<>>)
    IN  ReplaceAll(s2, <<".">>, <<>>)

\* "Remove any remaining digits at the start"
RECURSIVE StripLeadingDigits(_)
StripLeadingDigits(s) ==
    IF Len(s) > 0 /\ IsDigit(s[1]) THEN StripLeadingDigits(Tail(s)) ELSE s

\* "Handle promotions: accept e8=Q and e8Q"
UnifyPromotion(s) ==
    IF Contains(s, "=")
    THEN LET parts == Split(s, "=")
         IN  IF Len(parts) = 2 THEN parts[1] \o parts[2] ELSE s
    ELSE s

normalizeSAN(s) ==
    LET s1 == ToLower(TrimSpace(s))
        s2 == UnifyCastling(s1)
        s3 == StripAnnotations(s2)
        s4 == StripDots(s3)
        s5 == StripLeadingDigits(s4)
        s6 == UnifyPromotion(s5)
    IN  ReplaceAll(s6, <<" ">>, <<>>)

(***************************************************************************)
(* gradeLine                                                               *)
(***************************************************************************)
\* EarliestMistake is a *int: NilIndex is its nil
NilIndex == -1

\* the response gradeLine starts from, and returns for an empty typed list
\* (RequiredTicks, a pass-through of puzzle.Ticks, is left out)
ZeroResponse ==
    [ Correct |-> FALSE, Score |-> 0, TicksMatched |-> <<>>,
      DepthMatched |-> 0, EarliestMistake |-> NilIndex, BestLine |-> <<>> ]

\* the locals of gradeLine before its loop; stop is the loop's break
LoopStart ==
    [ correct |-> FALSE, ticksMatched |-> <<>>, depthMatched |-> 0,
      earliestMistake |-> NilIndex, bestLine |-> <<>>, stop |-> FALSE ]

\* the branches of the loop body; i is the Go index (from 0)
PastSolutionEnd(st, i) ==
    [ st EXCEPT !.earliestMistake = IF @ = NilIndex THEN i ELSE @,
                !.stop = TRUE ]

\* a match that notes the index of every matched move, tick or not
MoveMatchesNotesEveryIndex(st, i, solutionMove) ==
    [ st EXCEPT !.bestLine = Append(@, solutionMove.SAN),
                !.depthMatched = i + 1,
                !.correct = IF i = 0 THEN TRUE ELSE @,
                !.ticksMatched = Append(@, i) ]

MoveMatches(st, i, solutionMove) ==
    [ st EXCEPT !.bestLine = Append(@, solutionMove.SAN),
                !.depthMatched = i + 1,
                !.correct = IF i = 0 THEN TRUE ELSE @,
                !.ticksMatched = IF solutionMove.IsTick THEN Append(@, i) ELSE @ ]

MoveMismatches(st, i) ==
    [ st EXCEPT !.earliestMistake = IF @ = NilIndex THEN i ELSE @,
                !.stop = TRUE ]

\* a loop body that counts a tick only after the opening move
LoopBodyTicksAfterOpening(lines, typed, i, st) ==
    IF i >= Len(lines) THEN PastSolutionEnd(st, i)
    ELSE IF normalizeSAN(typed[i + 1]) = normalizeSAN(lines[i + 1].SAN)
         THEN [ MoveMatches(st, i, lines[i + 1]) EXCEPT
                    !.ticksMatched = IF i = 0 THEN st.ticksMatched ELSE @ ]
         ELSE MoveMismatches(st, i)

\* a loop body that stops one move before the end of the solution
LoopBodyStopsEarly(lines, typed, i, st) ==
    IF i >= Len(lines) - 1 THEN PastSolutionEnd(st, i)
    ELSE IF normalizeSAN(typed[i + 1]) = normalizeSAN(lines[i + 1].SAN)
         THEN MoveMatches(st, i, lines[i + 1])
         ELSE MoveMismatches(st, i)

\* a loop body that compares the raw strings
LoopBodyRawCompare(lines, typed, i, st) ==
    IF i >= Len(lines) THEN PastSolutionEnd(st, i)
    ELSE IF typed[i + 1] = lines[i + 1].SAN
         THEN MoveMatches(st, i, lines[i + 1])
         ELSE MoveMismatches(st, i)

\* a loop body that breaks past the solution's end without recording it
LoopBodySilentOverrun(lines, typed, i, st) ==
    IF i >= Len(lines) THEN [st EXCEPT !.stop = TRUE]
    ELSE IF normalizeSAN(typed[i + 1]) = normalizeSAN(lines[i + 1].SAN)
         THEN MoveMatches(st, i, lines[i + 1])
         ELSE MoveMismatches(st, i)

\* a loop body that keeps the user's spelling of a matched move
LoopBodyKeepsTyped(lines, typed, i, st) ==
    IF i >= Len(lines) THEN PastSolutionEnd(st, i)
    ELSE IF normalizeSAN(typed[i + 1]) = normalizeSAN(lines[i + 1].SAN)
         THEN MoveMatches(st, i, [lines[i + 1] EXCEPT !.SAN = typed[i + 1]])
         ELSE MoveMismatches(st, i)

\* one iteration of "for i, typedMove := range typedSAN"
LoopBody(lines, typed, i, st) ==
    IF i >= Len(lines) THEN PastSolutionEnd(st, i)
    ELSE IF normalizeSAN(typed[i + 1]) = normalizeSAN(lines[i + 1].SAN)
         THEN MoveMatches(st, i, lines[i + 1])
         ELSE MoveMismatches(st, i)

RECURSIVE GradeLoop(_, _, _, _)
GradeLoop(lines, typed, i, st) ==
    IF i >= Len(typed) \/ st.stop THEN st
    ELSE GradeLoop(lines, typed, i + 1, LoopBody(lines, typed, i, st))

\* a score that forgets the point of the opening move
LineScoreTicksOnly(correct, ticksMatched) ==
    IF correct THEN Len(ticksMatched) ELSE 0

\* "Calculate score: 1 if first move correct, plus 1 for each tick matched"
LineScore(correct, ticksMatched) ==
    IF correct THEN 1 + Len(ticksMatched) ELSE 0

\* lines is puzzle.Solution.Lines, a sequence of [SAN, IsTick]
gradeLine(lines, typed) ==
    IF Len(typed) = 0 THEN ZeroResponse
    ELSE LET st == GradeLoop(lines, typed, 0, LoopStart)
         IN  [ Correct |-> st.correct,
               Score |-> LineScore(st.correct, st.ticksMatched),
               TicksMatched |-> st.ticksMatched,
               DepthMatched |-> st.depthMatched,
               EarliestMistake |-> st.earliestMistake,
               BestLine |-> st.bestLine ]

(***************************************************************************)
(* The legacy board: setupPieces, isValidMove, makeMove                    *)
(***************************************************************************)
MaxMoves == 3
MaxCaptures == 2

BoardSize == 8

Squares == (0..(BoardSize - 1)) \X (0..(BoardSize - 1))

\* a nil *Piece
NoPiece == [Type |-> "none", Color |-> "none"]

PieceOf(type, color) == [Type |-> type, Color |-> color]

BackRank == <<"rook", "knight", "bishop", "queen", "king", "bishop", "knight", "rook">>

\* the board setupPieces leaves
StartBoard ==
    [ sq \in Squares |->
        IF sq[1] = 1 THEN PieceOf("pawn", "black")
        ELSE IF sq[1] = 6 THEN PieceOf("pawn", "white")
        ELSE IF sq[1] = 0 THEN PieceOf(BackRank[sq[2] + 1], "black")
        ELSE IF sq[1] = 7 THEN PieceOf(BackRank[sq[2] + 1], "white")
        ELSE NoPiece ]

\* setupPieces: the board, the player to move, GameOver and MoveHistory
\* are assigned; CapturedPieces is not among its assignments
setupPieces(g) ==
    [ g EXCEPT !.Board = StartBoard, !.CurrentPlayer = "white",
               !.GameOver = FALSE, !.MoveHistory = <<>> ]

\* initializeGame: empty captured lists, then setupPieces
initializeGame ==
    setupPieces([ Board |-> [sq \in Squares |-> NoPiece],
                  CurrentPlayer |-> "", GameOver |-> FALSE,
                  MoveHistory |-> <<>>,
                  CapturedPieces |-> [white |-> <<>>, black |-> <<>>] ])

abs(x) == IF x < 0 THEN -x ELSE x

min(a, b) == IF a < b THEN a ELSE b

max(a, b) == IF a > b THEN a ELSE b

isValidPawnMove(g, move) ==
    LET fromPiece == g.Board[<<move.FromRow, move.FromCol>>]
        rowDiff == move.ToRow - move.FromRow
        colDiff == abs(move.ToCol - move.FromCol)
        direction == IF fromPiece.Color = "white" THEN -1 ELSE 1
    IN  IF colDiff = 0
        THEN IF rowDiff = direction
             THEN g.Board[<<move.ToRow, move.ToCol>>] = NoPiece
             ELSE IF \/ (fromPiece.Color = "white" /\ move.FromRow = 6 /\ rowDiff = -2)
                     \/ (fromPiece.Color = "black" /\ move.FromRow = 1 /\ rowDiff = 2)
             THEN /\ g.Board[<<move.ToRow, move.ToCol>>] = NoPiece
                  /\ g.Board[<<move.FromRow + direction, move.FromCol>>] = NoPiece
             ELSE FALSE
        ELSE IF abs(colDiff) = 1 /\ rowDiff = direction
             THEN g.Board[<<move.ToRow, move.ToCol>>] # NoPiece
             ELSE FALSE

isValidRookMove(g, move) ==
    LET rowDiff == move.ToRow - move.FromRow
        colDiff == move.ToCol - move.FromCol
    IN  IF rowDiff # 0 /\ colDiff # 0 THEN FALSE
        ELSE IF rowDiff = 0
        THEN \A col \in (min(move.FromCol, move.ToCol) + 1)
                            ..(max(move.FromCol, move.ToCol) - 1) :
                 g.Board[<<move.FromRow, col>>] = NoPiece
        ELSE \A row \in (min(move.FromRow, move.ToRow) + 1)
                            ..(max(move.FromRow, move.ToRow) - 1) :
                 g.Board[<<row, move.FromCol>>] = NoPiece

isValidKnightMove(g, move) ==
    LET rowDiff == abs(move.ToRow - move.FromRow)
        colDiff == abs(move.ToCol - move.FromCol)
    IN  (rowDiff = 2 /\ colDiff = 1) \/ (rowDiff = 1 /\ colDiff = 2)

\* the squares strictly between the ends of a diagonal are visited while
\* "row != move.ToRow && col != move.ToCol"
isValidBishopMove(g, move) ==
    LET rowDiff == move.ToRow - move.FromRow
        colDiff == move.ToCol - move.FromCol
        rowStep == IF rowDiff < 0 THEN -1 ELSE 1
        colStep == IF colDiff < 0 THEN -1 ELSE 1
    IN  IF abs(rowDiff) # abs(colDiff) THEN FALSE
        ELSE \A n \in 1..(abs(rowDiff) - 1) :
                 g.Board[<<move.FromRow + n * rowStep,
                           move.FromCol + n * colStep>>] = NoPiece

isValidQueenMove(g, move) ==
    isValidRookMove(g, move) \/ isValidBishopMove(g, move)

isValidKingMove(g, move) ==
    abs(move.ToRow - move.FromRow) <= 1 /\ abs(move.ToCol - move.FromCol) <= 1

isValidMove(g, move) ==
    IF \/ move.FromRow < 0 \/ move.FromRow > 7 \/ move.FromCol < 0
       \/ move.FromCol > 7 \/ move.ToRow < 0 \/ move.ToRow > 7
       \/ move.ToCol < 0 \/ move.ToCol > 7
    THEN FALSE
    ELSE LET fromPiece == g.Board[<<move.FromRow, move.FromCol>>]
             toPiece == g.Board[<<move.ToRow, move.ToCol>>]
         IN  IF fromPiece = NoPiece THEN FALSE
             ELSE IF fromPiece.Color # g.CurrentPlayer THEN FALSE
             ELSE IF toPiece # NoPiece /\ toPiece.Color = fromPiece.Color THEN FALSE
             ELSE CASE fromPiece.Type = "pawn" -> isValidPawnMove(g, move)
                    [] fromPiece.Type = "rook" -> isValidRookMove(g, move)
                    [] fromPiece.Type = "knight" -> isValidKnightMove(g, move)
                    [] fromPiece.Type = "bishop" -> isValidBishopMove(g, move)
                    [] fromPiece.Type = "queen" -> isValidQueenMove(g, move)
                    [] fromPiece.Type = "king" -> isValidKingMove(g, move)
                    [] OTHER -> FALSE

\* makeMove: a piece on the target square goes to the list of the colour
\* that took it
makeMove(g, move) ==
    LET capturedPiece == g.Board[<<move.ToRow, move.ToCol>>]
        opponentColor == IF capturedPiece.Color = "white" THEN "black" ELSE "white"
        captured ==
            IF capturedPiece # NoPiece
            THEN [g.CapturedPieces EXCEPT ![opponentColor] = Append(@, capturedPiece)]
            ELSE g.CapturedPieces
    IN  [ g EXCEPT
            !.CapturedPieces = captured,
            !.Board = [ @ EXCEPT
                          ![<<move.ToRow, move.ToCol>>] =
                              g.Board[<<move.FromRow, move.FromCol>>],
                          ![<<move.FromRow, move.FromCol>>] = NoPiece ],
            !.MoveHistory = Append(@, move) ]

\* "Simple checkmate detection: if king is captured": no king of either
\* colour is left
isCheckmate(g) ==
    \A sq \in Squares : g.Board[sq].Type # "king"

\* the moves a client sends: between the squares of the d and e files
BoardRows == 1..6
BoardCols == {3, 4}

BoardMoves ==
    [ FromRow : BoardRows, FromCol : BoardCols, ToRow : BoardRows, ToCol : BoardCols ]

(***************************************************************************)
(* Inputs of the grader                                                    *)
(***************************************************************************)
\* moves a solution node carries
SolutionMoves == { <<"e","4">>, <<"N","f","3">> }

\* moves a user types: the solution's own spellings, another spelling of
\* one of them and a move that normalizes to the empty string
TypedMoves == SolutionMoves \cup { <<"E","4","+">>, <<"+">> }

SolutionNodes == [ SAN : SolutionMoves, IsTick : BOOLEAN ]

RECURSIVE ListsUpTo(_, _)
ListsUpTo(S, n) ==
    IF n = 0 THEN {<<>>}
    ELSE LET shorter == ListsUpTo(S, n - 1)
         IN  shorter \cup {Append(l, x) : x \in S, l \in {t \in shorter : Len(t) = n - 1}}

(***************************************************************************)
(* gradeSolution: the legacy grader over a solution forest                 *)
(***************************************************************************)
MaxRoots == 2

\* the accumulators the dfs closure captures, before the search
LegacyStart == [ok |-> FALSE, score |-> 0, correct |-> FALSE, matchedLine |-> <<>>]

\* "matchedLine[depth] = line.SAN", or append when depth = len(matchedLine)
SetMatched(matchedLine, depth, san) ==
    IF depth < Len(matchedLine)
    THEN [matchedLine EXCEPT ![depth + 1] = san]
    ELSE Append(matchedLine, san)

\* the accumulators after a line matched the played move at this depth
LineMatched(st, line, depth) ==
    [ ok |-> FALSE,
      score |-> IF line.IsTick THEN st.score + 1 ELSE st.score,
      correct |-> st.correct \/ depth = 0,
      matchedLine |-> SetMatched(st.matchedLine, depth, line.SAN) ]

\* a search that gives up once the first matching sibling has failed deeper
LoopEndsAfterFailedDescent(sub) == FALSE

\* "if dfs(line.Children, depth+1) { return true }": when the descent
\* returned false the for loop goes on with the next sibling
LoopGoesOnAfterDescent(sub) == ~ sub.ok

\* the for loop of dfs over lines[i..], with the accumulators st
RECURSIVE dfs(_, _, _, _, _)
dfs(lines, i, depth, playedSAN, st) ==
    IF i > Len(lines) THEN [st EXCEPT !.ok = FALSE]
    ELSE LET line == lines[i]
         IN  IF line.SAN = <<>>
             THEN dfs(lines, i + 1, depth, playedSAN, st)
             ELSE IF depth < Len(playedSAN) /\ line.SAN = playedSAN[depth + 1]
             THEN LET st1 == LineMatched(st, line, depth)
                  IN  IF depth + 1 < Len(playedSAN) /\ Len(line.Children) > 0
                      THEN LET sub == dfs(line.Children, 1, depth + 1,
                                          playedSAN, st1)
                           IN  IF LoopGoesOnAfterDescent(sub)
                               THEN dfs(lines, i + 1, depth, playedSAN, sub)
                               ELSE sub
                      ELSE IF depth + 1 >= Len(playedSAN)
                      THEN [st1 EXCEPT !.ok = TRUE]
                      ELSE dfs(lines, i + 1, depth, playedSAN, st1)
             ELSE dfs(lines, i + 1, depth, playedSAN, st)

gradeSolution(forest, playedSAN) ==
    IF Len(playedSAN) = 0
    THEN [correct |-> FALSE, score |-> 0, matchedLine |-> <<>>]
    ELSE LET st == dfs(forest, 1, 0, playedSAN, LegacyStart)
         IN  [correct |-> st.correct, score |-> st.score,
              matchedLine |-> st.matchedLine]

\* a first-move grader that also accepts a root without a move
GradeFirstMoveAnyRoot(lines, playedSAN) ==
    LET first == IF Len(playedSAN) > 0 THEN playedSAN[1] ELSE <<>>
    IN  \E i \in 1..Len(lines) : lines[i].SAN = first

\* GradeFirstMove of the dev service: want holds the moves of the root
\* lines that have one; first is "" when nothing was played
GradeFirstMove(lines, playedSAN) ==
    LET want == { lines[i].SAN : i \in { j \in 1..Len(lines) : lines[j].SAN # <<>> } }
        first == IF Len(playedSAN) > 0 THEN playedSAN[1] ELSE <<>>
    IN  first \in want

\* forests of depth two whose siblings may share a move or have none
LegacyMoves == { <<"e","4">>, <<"e","5">> }

LegacyLeaves == [ SAN : LegacyMoves, IsTick : BOOLEAN, Children : {<<>>} ]

LegacyRoots ==
    { [SAN |-> <<>>, IsTick |-> TRUE, Children |-> <<>>] }
        \cup [ SAN : LegacyMoves, IsTick : BOOLEAN,
               Children : {<<>>} \cup { <<c>> : c \in LegacyLeaves } ]

LegacyForests == ListsUpTo(LegacyRoots, MaxRoots) \ {<<>>}

LegacyPlayed ==
    {<<>>} \cup { <<m>> : m \in LegacyMoves }
           \cup { <<m, n>> : m \in LegacyMoves, n \in LegacyMoves }

(***************************************************************************)
(* The puzzles and progress tables, saveProgress                           *)
(***************************************************************************)
\* the rows of the puzzles table, with solution_json already parsed into
\* the flat line gradeLine reads: a one-move puzzle and a four-move puzzle
\* that begins with the line of the specification's examples
PuzzleTable ==
    [ p1 |-> << [SAN |-> <<"e","4">>, IsTick |-> TRUE] >>,
      p4 |-> << [SAN |-> <<"e","4">>, IsTick |-> TRUE],
                [SAN |-> <<"e","5">>, IsTick |-> FALSE],
                [SAN |-> <<"N","f","3">>, IsTick |-> TRUE],
                [SAN |-> <<"N","c","6">>, IsTick |-> FALSE] >> ]

PuzzleIds == DOMAIN PuzzleTable

\* "default_user", the user every grade-line request is recorded under
DefaultUser == "default_user"

\* the users who send requests
Users == {"default_user", "alice"}

\* NULL in a DATETIME column; CURRENT_TIMESTAMP is the clock, from 1
NullTime == 0

\* "CASE WHEN ? >= 3": the depth from which an UPDATE stamps solved_at
SolvedDepth == 3

\* encoding/json on a string: quotes, with ", \ and the HTML characters
\* escaped
JsonEscapeChar(c) ==
    CASE c = "\"" -> <<"\\", "\"">>
      [] c = "\\" -> <<"\\", "\\">>
      [] c = "<"  -> <<"\\", "u", "0", "0", "3", "c">>
      [] c = ">"  -> <<"\\", "u", "0", "0", "3", "e">>
      [] c = "&"  -> <<"\\", "u", "0", "0", "2", "6">>
      [] OTHER    -> <<c>>

RECURSIVE JsonEscape(_)
JsonEscape(s) ==
    IF s = <<>> THEN <<>> ELSE JsonEscapeChar(Head(s)) \o JsonEscape(Tail(s))

JsonString(s) == <<"\"">> \o JsonEscape(s) \o <<"\"">>

RECURSIVE JsonElements(_)
JsonElements(list) ==
    IF list = <<>> THEN <<>>
    ELSE IF Len(list) = 1 THEN JsonString(list[1])
    ELSE JsonString(list[1]) \o <<",">> \o JsonElements(Tail(list))

\* json.Marshal(typedSAN): a nil slice is null, any other an array
jsonMarshal(typedSAN, isNil) ==
    IF isNil THEN <<"n","u","l","l">>
    ELSE <<"[">> \o JsonElements(typedSAN) \o <<"]">>

\* the indices of the progress rows of one (user, puzzle) pair
ProgressRowsOf(table, userID, puzzleID) ==
    { k \in 1..Len(table) :
        table[k].user_id = userID /\ table[k].puzzle_id = puzzleID }

\* INSERT INTO progress under UNIQUE(user_id, puzzle_id): a second row of
\* the pair is refused and the table is left as it was
InsertProgress(table, row) ==
    IF ProgressRowsOf(table, row.user_id, row.puzzle_id) # {}
    THEN table
    ELSE Append(table, row)

\* an update that keeps the best score instead of the last
UpdateProgressBestScore(table, now, userID, puzzleID, typedJSON, score, depthMatched) ==
    [ k \in 1..Len(table) |->
        IF k \in ProgressRowsOf(table, userID, puzzleID)
        THEN [ table[k] EXCEPT
                 !.attempts = @ + 1,
                 !.score = IF score > @ THEN score ELSE @,
                 !.typed_json = typedJSON,
                 !.solved_at = IF depthMatched >= SolvedDepth THEN now ELSE @,
                 !.updated_at = now ]
        ELSE table[k] ]

\* UPDATE progress ... WHERE user_id = ? AND puzzle_id = ?
UpdateProgress(table, now, userID, puzzleID, typedJSON, score, depthMatched) ==
    [ k \in 1..Len(table) |->
        IF k \in ProgressRowsOf(table, userID, puzzleID)
        THEN [ table[k] EXCEPT
                 !.attempts = @ + 1,
                 !.score = score,
                 !.typed_json = typedJSON,
                 !.solved_at = IF depthMatched >= SolvedDepth THEN now ELSE @,
                 !.updated_at = now ]
        ELSE table[k] ]

\* the row of "INSERT INTO progress (...) VALUES (?, ?, 1, ?, ?, ...)":
\* solved_at is not among its columns and stays NULL
NewProgressRow(table, now, userID, puzzleID, typedJSON, score) ==
    [ id |-> Len(table) + 1, user_id |-> userID,
      puzzle_id |-> puzzleID, attempts |-> 1, score |-> score,
      solved_at |-> NullTime, typed_json |-> typedJSON,
      created_at |-> now, updated_at |-> now ]

\* saveProgress on a store that answers: the progress table it leaves
saveProgress(table, now, userID, puzzleID, typedSAN, typedNil, score, depthMatched) ==
    LET typedJSON == jsonMarshal(typedSAN, typedNil)
    IN  IF ProgressRowsOf(table, userID, puzzleID) = {}
        THEN InsertProgress(table,
                 NewProgressRow(table, now, userID, puzzleID, typedJSON, score))
        ELSE UpdateProgress(table, now, userID, puzzleID, typedJSON,
                            score, depthMatched)

\* saveProgress on a store that may fail: selectFails is an error of the
\* SELECT, which the code takes for "no existing progress"; execFails is
\* an error of the INSERT or UPDATE.  The result is the table it leaves
\* and whether "Error saving progress" was logged.
saveProgressOnFaultyStore(table, now, userID, puzzleID, typedSAN, typedNil, score, depthMatched, selectFails, execFails) ==
    LET typedJSON == jsonMarshal(typedSAN, typedNil)
        noRow == selectFails \/ ProgressRowsOf(table, userID, puzzleID) = {}
        after ==
            IF execFails THEN table
            ELSE IF noRow
            THEN InsertProgress(table,
                     NewProgressRow(table, now, userID, puzzleID, typedJSON, score))
            ELSE UpdateProgress(table, now, userID, puzzleID, typedJSON,
                                score, depthMatched)
    IN  [ table |-> after,
          logged |-> execFails
                       \/ (noRow /\ ProgressRowsOf(table, userID, puzzleID) # {}) ]

(***************************************************************************)
(* Inputs of the grade-line endpoint                                       *)
(***************************************************************************)
\* typedSans of a request: absent (nil), wrong, and lines of one, three
\* and four right moves, one of them respelled
TypedRequests ==
    { [nil |-> TRUE,  sans |-> <<>>],
      [nil |-> FALSE, sans |-> << <<"d","4">> >>],
      [nil |-> FALSE, sans |-> << <<"E","4","+">> >>],
      [nil |-> FALSE, sans |-> << <<"e","4">>, <<"e","5">>, <<"N","f","3">> >>],
      [nil |-> FALSE, sans |-> << <<"e","4">>, <<"e","5">>, <<"N","f","3">>,
                                  <<"N","c","6">> >>] }

\* puzzleId of a request: a stored puzzle, none, or an unknown one
RequestPuzzleIds == PuzzleIds \cup {"", "p9"}

(***************************************************************************)
(* Inputs of the normalizer                                                *)
(***************************************************************************)
NormAlphabet == {"0", "1", "-", "O", "a", "+", "!", ".", "=", " ", "\t"}

RECURSIVE StringsUpTo(_, _)
StringsUpTo(A, n) ==
    IF n = 0 THEN {<<>>}
    ELSE LET shorter == StringsUpTo(A, n - 1)
         IN  shorter \cup {<<c>> \o s : c \in A, s \in {t \in shorter : Len(t) = n - 1}}

MoveNumberPrefixes ==
    { <<>>, <<"1",".">>, <<"1","2",".">>, <<"1","0",".",".",".">>,
      <<"7",".",".","."," ">> }

KingsideSpellings ==
    { <<"0","-","0">>, <<"O","-","O">>, <<"o","-","o">>, <<"O","-","o">> }

QueensideSpellings ==
    { <<"0","-","0","-","0">>, <<"O","-","O","-","O">>,
      <<"o","-","o","-","o">>, <<"o","-","O","-","o">> }

KingsideInputs   == { p \o c : p \in MoveNumberPrefixes, c \in KingsideSpellings }
QueensideInputs  == { p \o c : p \in MoveNumberPrefixes, c \in QueensideSpellings }

\* the normalizations the specification lists as examples
ExampleInputs ==
    { <<"N","f","3","+">>, <<"n","f","3">>, <<"e","8","=","Q">>,
      <<"e","8","Q">>, <<"e","8","=","Q","=">> }

NormInputs ==
    StringsUpTo(NormAlphabet, MaxLen) \cup KingsideInputs
        \cup QueensideInputs \cup ExampleInputs

(***************************************************************************)
(* State                                                                   *)
(***************************************************************************)
VARIABLES
    nsIn,     \* the string handed to normalizeSAN
    nsOut,    \* normalizeSAN(nsIn)
    nsOut2,   \* normalizeSAN(nsOut)
    nsPc,     \* "in", "once", "twice"
    glLines,  \* the flat solution line handed to gradeLine
    glTyped,  \* the typed moves handed to gradeLine
    glResp,   \* the GradeLineResponse it returned
    glPc,     \* "in", "graded"
    progress, \* the progress table, a sequence of rows
    now,      \* CURRENT_TIMESTAMP
    served,   \* the grade-line requests answered so far
    httpStatus, \* status of the last answer, 0 before the first
    httpBody, \* the GradeLineResponse of the last answer
    recorded, \* per (user, puzzle): the saveProgress calls made for it
    fault,    \* the last request met a storage error while recording
    reqs,     \* the grade-line requests in flight, by request number
    cycles,   \* the cycles table, a sequence of rows
    sessions, \* the sessions table, a sequence of rows
    dailyPlans, \* the daily_plans table, a sequence of rows
    sweep,    \* the run of updateDailyPlans in progress
    lazy,     \* the on-access plan build in progress
    lgForest, \* the solution forest handed to gradeSolution
    lgPlayed, \* the played moves handed to gradeSolution
    lgResult, \* what gradeSolution returned
    lgPc,     \* "in", "graded"
    dvOk,     \* the "correct" GradeFirstMove answered
    dvPc,     \* "in", "graded"
    game,     \* the global ChessGame
    gameReq,  \* the last request to the board endpoints and its status
    httpReq   \* the last grade-line request: who sent it and what it named

normVars  == <<nsIn, nsOut, nsOut2, nsPc>>
gradeVars == <<glLines, glTyped, glResp, glPc>>
storeVars == <<progress, now, served, httpStatus, httpBody, recorded, fault>>
raceVars  == <<reqs>>
trainerVars == <<cycles, sessions>>
planVars  == <<dailyPlans, sweep, lazy>>
legacyVars == <<lgForest, lgPlayed, lgResult, lgPc>>
devVars == <<dvOk, dvPc>>
boardVars == <<game, gameReq>>
traceVars == <<httpReq>>
vars == <<normVars, gradeVars, storeVars, raceVars, trainerVars, planVars,
          legacyVars, devVars, boardVars, traceVars>>

Pairs == Users \X PuzzleIds

NoCalls == [calls |-> 0, score |-> 0, typed |-> <<>>, typedNil |-> FALSE]

InitStore ==
    /\ progress = <<>>
    /\ now = 1
    /\ served = 0
    /\ httpStatus = 0
    /\ httpBody = ZeroResponse
    /\ recorded = [pr \in Pairs |-> NoCalls]
    /\ fault = FALSE

\* the variables a specification does not use stay at these values
NormIdle ==
    /\ nsIn = <<>> /\ nsOut = <<>> /\ nsOut2 = <<>> /\ nsPc = "idle"

GradeIdle ==
    /\ glLines = <<>> /\ glTyped = <<>> /\ glResp = ZeroResponse /\ glPc = "idle"

RaceIdle == reqs = <<>>

TrainerIdle == cycles = <<>> /\ sessions = <<>>

\* no run of updateDailyPlans yet; listed, visited and failed are the
\* users the run found, reached and logged an error for; before and atFail
\* are each user's plan rows when its iteration began and when it failed
NoSweep ==
    [ pc |-> "idle", queue |-> <<>>, runs |-> 0, aborted |-> FALSE,
      listed |-> {}, visited |-> {}, failed |-> {}, refused |-> FALSE,
      before |-> [u \in Users |-> {}], atFail |-> [u \in Users |-> {}] ]

NoLazy == [pc |-> "idle", found |-> FALSE, calls |-> 0, refused |-> FALSE]

PlanIdle == dailyPlans = <<>> /\ sweep = NoSweep /\ lazy = NoLazy

NoLegacyResult == [correct |-> FALSE, score |-> 0, matchedLine |-> <<>>]

LegacyIdle ==
    /\ lgForest = <<>> /\ lgPlayed = <<>> /\ lgResult = NoLegacyResult
    /\ lgPc = "idle"

DevIdle == dvOk = FALSE /\ dvPc = "idle"

NoRequest == [requester |-> "", decoded |-> FALSE, puzzleID |-> ""]

\* the board after start-up; no request seen yet
NoGameRequest == [path |-> "", status |-> 0]

BoardIdle == game = initializeGame /\ gameReq = NoGameRequest /\ httpReq = NoRequest

(***************************************************************************)
(* The normalizer applied once and again                                   *)
(***************************************************************************)
InitNorm ==
    /\ nsIn \in NormInputs
    /\ nsOut = <<>>
    /\ nsOut2 = <<>>
    /\ nsPc = "in"
    /\ GradeIdle
    /\ InitStore
    /\ RaceIdle /\ TrainerIdle /\ PlanIdle /\ LegacyIdle /\ DevIdle /\ BoardIdle

NormalizeCall ==
    /\ nsPc = "in"
    /\ nsOut' = normalizeSAN(nsIn)
    /\ nsPc' = "once"
    /\ UNCHANGED <<nsIn, nsOut2, gradeVars, storeVars, raceVars, trainerVars,
                   planVars, legacyVars, devVars, boardVars, traceVars>>

NormalizeAgain ==
    /\ nsPc = "once"
    /\ nsOut2' = normalizeSAN(nsOut)
    /\ nsPc' = "twice"
    /\ UNCHANGED <<nsIn, nsOut, gradeVars, storeVars, raceVars, trainerVars,
                   planVars, legacyVars, devVars, boardVars, traceVars>>

NextNorm == NormalizeCall \/ NormalizeAgain

SpecNorm == InitNorm /\ [][NextNorm]_vars

(***************************************************************************)
(* The grader applied to a solution line and a typed list                  *)
(***************************************************************************)
InitGrade ==
    /\ glLines \in ListsUpTo(SolutionNodes, MaxSol)
    /\ glTyped \in ListsUpTo(TypedMoves, MaxTyped)
    /\ glResp = ZeroResponse
    /\ glPc = "in"
    /\ NormIdle
    /\ InitStore
    /\ RaceIdle /\ TrainerIdle /\ PlanIdle /\ LegacyIdle /\ DevIdle /\ BoardIdle

GradeLineCall ==
    /\ glPc = "in"
    /\ glResp' = gradeLine(glLines, glTyped)
    /\ glPc' = "graded"
    /\ UNCHANGED <<glLines, glTyped, normVars, storeVars, raceVars, trainerVars,
                   planVars, legacyVars, devVars, boardVars, traceVars>>

NextGrade == GradeLineCall

SpecGrade == InitGrade /\ [][NextGrade]_vars

(***************************************************************************)
(* The grade-line endpoint on a working store                              *)
(***************************************************************************)
Init ==
    /\ NormIdle
    /\ GradeIdle
    /\ InitStore
    /\ RaceIdle /\ TrainerIdle /\ PlanIdle /\ LegacyIdle /\ DevIdle /\ BoardIdle

\* a second passes
Tick ==
    /\ now < MaxClock
    /\ now' = now + 1
    /\ UNCHANGED <<normVars, gradeVars, progress, served, httpStatus,
                   httpBody, recorded, fault, raceVars, trainerVars,
                   planVars, legacyVars, devVars, boardVars, traceVars>>

\* handleGradeLine for one request; requester is the user who sent it
\* a handler without the "puzzleId required" test: a missing id goes on to
\* the puzzle lookup
handleGradeLineNoIdCheck(requester, badJSON, puzzleID, typed) ==
    /\ served < MaxCalls
    /\ served' = served + 1
    /\ IF badJSON
       THEN /\ httpStatus' = 400
            /\ UNCHANGED <<httpBody, progress, recorded>>
       ELSE IF puzzleID \notin PuzzleIds
       THEN /\ httpStatus' = 404
            /\ UNCHANGED <<httpBody, progress, recorded>>
       ELSE LET response == gradeLine(PuzzleTable[puzzleID], typed.sans)
                userID == DefaultUser
            IN  /\ progress' = saveProgress(progress, now, userID, puzzleID,
                                   typed.sans, typed.nil, response.Score,
                                   response.DepthMatched)
                /\ recorded' = [recorded EXCEPT ![<<userID, puzzleID>>] =
                                   [ calls |-> @.calls + 1,
                                     score |-> response.Score,
                                     typed |-> typed.sans,
                                     typedNil |-> typed.nil ]]
                /\ httpStatus' = 200
                /\ httpBody' = response
    /\ fault' = FALSE
    /\ UNCHANGED <<normVars, gradeVars, now, raceVars, trainerVars, planVars,
                   legacyVars, devVars, boardVars>>

handleGradeLine(requester, badJSON, puzzleID, typed) ==
    /\ served < MaxCalls
    /\ served' = served + 1
    /\ IF badJSON \/ puzzleID = ""
       THEN /\ httpStatus' = 400
            /\ UNCHANGED <<httpBody, progress, recorded>>
       ELSE IF puzzleID \notin PuzzleIds
       THEN /\ httpStatus' = 404
            /\ UNCHANGED <<httpBody, progress, recorded>>
       ELSE LET response == gradeLine(PuzzleTable[puzzleID], typed.sans)
                userID == DefaultUser
            IN  /\ progress' = saveProgress(progress, now, userID, puzzleID,
                                   typed.sans, typed.nil, response.Score,
                                   response.DepthMatched)
                /\ recorded' = [recorded EXCEPT ![<<userID, puzzleID>>] =
                                   [ calls |-> @.calls + 1,
                                     score |-> response.Score,
                                     typed |-> typed.sans,
                                     typedNil |-> typed.nil ]]
                /\ httpStatus' = 200
                /\ httpBody' = response
    /\ fault' = FALSE
    /\ UNCHANGED <<normVars, gradeVars, now, raceVars, trainerVars, planVars,
                   legacyVars, devVars, boardVars>>

\* a body that does not decode leaves the request at its zero value
UndecodedRequest == [nil |-> TRUE, sans |-> <<>>]

GradeLineRequest ==
    /\ \E requester \in Users :
          \/ handleGradeLine(requester, TRUE, "", UndecodedRequest)
          \/ \E puzzleID \in RequestPuzzleIds, typed \in TypedRequests :
                 handleGradeLine(requester, FALSE, puzzleID, typed)
    /\ UNCHANGED traceVars

Next == GradeLineRequest \/ Tick

Spec == Init /\ [][Next]_vars

(***************************************************************************)
(* The grade-line endpoint on a store that may fail                        *)
(***************************************************************************)
\* handleGradeLine for a request whose puzzle loads and whose recording
\* meets the storage errors selectFails and execFails
handleGradeLineOnFaultyStore(requester, puzzleID, typed, selectFails, execFails) ==
    /\ served < MaxCalls
    /\ served' = served + 1
    /\ LET response == gradeLine(PuzzleTable[puzzleID], typed.sans)
           userID == DefaultUser
           saved == saveProgressOnFaultyStore(progress, now, userID, puzzleID,
                        typed.sans, typed.nil, response.Score,
                        response.DepthMatched, selectFails, execFails)
       IN  /\ progress' = saved.table
           /\ recorded' = [recorded EXCEPT ![<<userID, puzzleID>>] =
                              [ calls |-> @.calls + 1,
                                score |-> response.Score,
                                typed |-> typed.sans,
                                typedNil |-> typed.nil ]]
           /\ fault' = (selectFails \/ execFails)
           /\ httpStatus' = 200
           /\ httpBody' = response
    /\ UNCHANGED <<normVars, gradeVars, now, raceVars, trainerVars, planVars,
                   legacyVars, devVars, boardVars, traceVars>>

FaultyGradeLineRequest ==
    \E requester \in Users, puzzleID \in PuzzleIds, typed \in TypedRequests,
       selectFails \in BOOLEAN, execFails \in BOOLEAN :
        /\ selectFails \/ execFails
        /\ handleGradeLineOnFaultyStore(requester, puzzleID, typed,
                                        selectFails, execFails)

\* the endpoint with each request noted as it is answered
TracedGradeLineRequest ==
    \E requester \in Users :
        \/ /\ handleGradeLine(requester, TRUE, "", UndecodedRequest)
           /\ httpReq' = [requester |-> requester, decoded |-> FALSE,
                          puzzleID |-> ""]
        \/ \E puzzleID \in RequestPuzzleIds, typed \in TypedRequests :
               /\ handleGradeLine(requester, FALSE, puzzleID, typed)
               /\ httpReq' = [requester |-> requester, decoded |-> TRUE,
                              puzzleID |-> puzzleID]

NextTraced == TracedGradeLineRequest

SpecTraced == Init /\ [][NextTraced]_vars

NextFault == GradeLineRequest \/ FaultyGradeLineRequest \/ Tick

SpecFault == Init /\ [][NextFault]_vars

(***************************************************************************)
(* Calls of gradeSolution                                                  *)
(***************************************************************************)
InitLegacy ==
    /\ NormIdle /\ GradeIdle /\ InitStore /\ RaceIdle /\ TrainerIdle /\ PlanIdle
    /\ BoardIdle
    /\ dvOk = FALSE /\ dvPc = "in"
    /\ lgForest \in LegacyForests
    /\ lgPlayed \in LegacyPlayed
    /\ lgResult = NoLegacyResult
    /\ lgPc = "in"

GradeSolutionCall ==
    /\ lgPc = "in"
    /\ lgResult' = gradeSolution(lgForest, lgPlayed)
    /\ lgPc' = "graded"
    /\ UNCHANGED <<lgForest, lgPlayed, normVars, gradeVars, storeVars, raceVars,
                   trainerVars, planVars, devVars, boardVars, traceVars>>

\* the dev endpoint grades the same puzzle and played moves
GradeFirstMoveCall ==
    /\ dvPc = "in"
    /\ dvOk' = GradeFirstMove(lgForest, lgPlayed)
    /\ dvPc' = "graded"
    /\ UNCHANGED <<normVars, gradeVars, storeVars, raceVars, trainerVars,
                   planVars, legacyVars, boardVars, traceVars>>

NextLegacy == GradeSolutionCall \/ GradeFirstMoveCall

SpecLegacy == InitLegacy /\ [][NextLegacy]_vars

(***************************************************************************)
(* The three graders on solutions with nodes that have no move             *)
(***************************************************************************)
MaxEmptyLen == 2

EmptyMoveNodes == [ SAN : { <<>>, <<"e","4">> }, IsTick : BOOLEAN ]

\* typed moves: "", "+", "1." and "e4"
EmptyishTyped == { <<>>, <<"+">>, <<"1",".">>, <<"e","4">> }

\* the flat line as a forest of roots without children
AsRoots(lines) ==
    [ i \in 1..Len(lines) |->
        [SAN |-> lines[i].SAN, IsTick |-> lines[i].IsTick, Children |-> <<>>] ]

InitEmpty ==
    /\ NormIdle /\ InitStore /\ RaceIdle /\ TrainerIdle /\ PlanIdle /\ BoardIdle
    /\ glLines \in ListsUpTo(EmptyMoveNodes, MaxEmptyLen)
    /\ glTyped \in ListsUpTo(EmptyishTyped, MaxEmptyLen)
    /\ glResp = ZeroResponse /\ glPc = "in"
    /\ lgForest = AsRoots(glLines) /\ lgPlayed = glTyped
    /\ lgResult = NoLegacyResult /\ lgPc = "in"
    /\ dvOk = FALSE /\ dvPc = "in"

NextEmpty == GradeLineCall \/ GradeSolutionCall \/ GradeFirstMoveCall

SpecEmpty == InitEmpty /\ [][NextEmpty]_vars

(***************************************************************************)
(* The trainer endpoints over the cycles and sessions tables               *)
(***************************************************************************)
MaxCycles == 3
MaxSessions == 2

SetIds == {1, 2}
CycleStatuses == {"planned", "active"}
TargetCounts == {1, 2}

\* CreateCycle: a plain INSERT; the table has no uniqueness beyond the id
CreateCycle(table, setID, index, targetDays, status) ==
    Append(table, [ id |-> Len(table) + 1, set_id |-> setID,
                    cycle_index |-> index, target_days |-> targetDays,
                    started_at |-> NullTime, ended_at |-> NullTime,
                    status |-> status ])

\* the first cycle seedDemoSet creates for the demo set
seedDemoSet(table) == CreateCycle(table, 1, 1, 1, "planned")

\* CreateSession: a plain INSERT
CreateSession(table, cycleID, startedAt, targetCount) ==
    Append(table, [ id |-> Len(table) + 1, cycle_id |-> cycleID,
                    started_at |-> startedAt, ended_at |-> NullTime,
                    target_count |-> targetCount ])

\* UpdateSession after the handler has overwritten EndedAt
UpdateSession(table, id, endedAt) ==
    [ k \in 1..Len(table) |->
        IF table[k].id = id THEN [table[k] EXCEPT !.ended_at = endedAt]
        ELSE table[k] ]

InitTrainer ==
    /\ NormIdle /\ GradeIdle /\ InitStore /\ RaceIdle /\ PlanIdle /\ LegacyIdle /\ DevIdle /\ BoardIdle
    /\ cycles = seedDemoSet(<<>>)
    /\ sessions = <<>>

handleTrainerCycles(setID, index, targetDays, status) ==
    /\ Len(cycles) < MaxCycles
    /\ cycles' = CreateCycle(cycles, setID, index, targetDays, status)
    /\ UNCHANGED <<normVars, gradeVars, storeVars, raceVars, sessions, planVars,
                   legacyVars, devVars, boardVars, traceVars>>

handleTrainerSessions(cycleID, targetCount) ==
    /\ Len(sessions) < MaxSessions
    /\ sessions' = CreateSession(sessions, cycleID, now, targetCount)
    /\ UNCHANGED <<normVars, gradeVars, storeVars, raceVars, cycles, planVars,
                   legacyVars, devVars, boardVars, traceVars>>

\* GetSessionByID answers 404 for an unknown id and nothing is written
handleTrainerSessionUpdate(sessionID, endedAt) ==
    /\ sessions' = IF \E k \in 1..Len(sessions) : sessions[k].id = sessionID
                   THEN UpdateSession(sessions, sessionID, endedAt)
                   ELSE sessions
    /\ UNCHANGED <<normVars, gradeVars, storeVars, raceVars, cycles, planVars,
                   legacyVars, devVars, boardVars, traceVars>>

TrainerCyclesRequest ==
    \E setID \in SetIds, status \in CycleStatuses :
        handleTrainerCycles(setID, 1, 1, status)

TrainerSessionsRequest ==
    \E k \in 1..Len(cycles), targetCount \in TargetCounts :
        handleTrainerSessions(cycles[k].id, targetCount)

TrainerSessionUpdateRequest ==
    \E sessionID \in 1..MaxSessions, endedAt \in {NullTime, now} :
        handleTrainerSessionUpdate(sessionID, endedAt)

NextTrainer ==
    TrainerCyclesRequest \/ TrainerSessionsRequest \/ TrainerSessionUpdateRequest

SpecTrainer == InitTrainer /\ [][NextTrainer]_vars

(***************************************************************************)
(* The legacy board: /api/move, /api/new-game, /api/reset                  *)
(***************************************************************************)
InitBoard ==
    /\ NormIdle /\ GradeIdle /\ InitStore /\ RaceIdle /\ TrainerIdle /\ PlanIdle
    /\ LegacyIdle /\ DevIdle /\ BoardIdle

CapturedCount(g) == Len(g.CapturedPieces["white"]) + Len(g.CapturedPieces["black"])

\* handleMove: 400 when the game is over or the move is not valid, else the
\* move is made, GameOver follows isCheckmate and the player to move changes
handleMove(move) ==
    /\ Len(game.MoveHistory) < MaxMoves
    /\ \/ game.Board[<<move.ToRow, move.ToCol>>] = NoPiece
       \/ CapturedCount(game) < MaxCaptures
    /\ IF game.GameOver \/ ~ isValidMove(game, move)
       THEN /\ game' = game
            /\ gameReq' = [path |-> "/api/move", status |-> 400]
       ELSE LET moved == makeMove(game, move)
                checked == IF isCheckmate(moved)
                           THEN [moved EXCEPT !.GameOver = TRUE]
                           ELSE moved
            IN  /\ game' = [ checked EXCEPT
                               !.CurrentPlayer =
                                   IF @ = "white" THEN "black" ELSE "white" ]
                /\ gameReq' = [path |-> "/api/move", status |-> 200]
    /\ UNCHANGED <<normVars, gradeVars, storeVars, raceVars, trainerVars,
                   planVars, legacyVars, devVars, traceVars>>

handleNewGame ==
    /\ game' = setupPieces(game)
    /\ gameReq' = [path |-> "/api/new-game", status |-> 200]
    /\ UNCHANGED <<normVars, gradeVars, storeVars, raceVars, trainerVars,
                   planVars, legacyVars, devVars, traceVars>>

handleReset ==
    /\ game' = setupPieces(game)
    /\ gameReq' = [path |-> "/api/reset", status |-> 200]
    /\ UNCHANGED <<normVars, gradeVars, storeVars, raceVars, trainerVars,
                   planVars, legacyVars, devVars, traceVars>>

MoveRequest == \E move \in BoardMoves : handleMove(move)

NextBoard == MoveRequest \/ handleNewGame \/ handleReset

SpecBoard == InitBoard /\ [][NextBoard]_vars

(***************************************************************************)
(* The daily plan scheduler: updateDailyPlans and the on-access build      *)
(***************************************************************************)
MaxSweeps == 2
MaxLazy == 2

\* the puzzles of the user's set, in stored position order
PlanSetPuzzles == <<"p1", "p4">>

PlanRowNumbersOf(table, userID) ==
    { k \in 1..Len(table) : table[k].user_id = userID }

PlanRowsOf(table, userID) ==
    { table[k] : k \in PlanRowNumbersOf(table, userID) }

NewPlanRow(table, now1, userID, todayBatch) ==
    [ id |-> Len(table) + 1, user_id |-> userID, todayBatch |-> todayBatch,
      active |-> 1, updated_at |-> now1 ]

\* an INSERT into a table that ignores UNIQUE(user_id)
InsertPlanNoUnique(table, row) == Append(table, row)

\* an INSERT into daily_plans: UNIQUE(user_id) refuses a second row
InsertPlan(table, row) ==
    IF PlanRowNumbersOf(table, row.user_id) # {} THEN table
    ELSE Append(table, row)

\* "UPDATE daily_plans SET daily_plan_json = ?, updated_at =
\* CURRENT_TIMESTAMP WHERE user_id = ? AND active = 1"
UpdatePlan(table, now1, userID, todayBatch) ==
    [ k \in 1..Len(table) |->
        IF table[k].user_id = userID /\ table[k].active = 1
        THEN [table[k] EXCEPT !.todayBatch = todayBatch, !.updated_at = now1]
        ELSE table[k] ]

\* "SELECT DISTINCT user_id FROM daily_plans WHERE active = 1", in row order
RECURSIVE ActiveUsers(_, _)
ActiveUsers(table, seen) ==
    IF table = <<>> THEN <<>>
    ELSE LET row == Head(table)
         IN  IF row.active = 1 /\ row.user_id \notin seen
             THEN <<row.user_id>> \o ActiveUsers(Tail(table), seen \cup {row.user_id})
             ELSE ActiveUsers(Tail(table), seen)

\* the users one run iterates over
SweepUsers(table) ==
    IF ActiveUsers(table, {}) = <<>> THEN <<DefaultUser>>
    ELSE ActiveUsers(table, {})

IsSolved(table, userID, puzzleID) ==
    \E k \in ProgressRowsOf(table, userID, puzzleID) :
        table[k].solved_at # NullTime

UnsolvedPuzzles(table, userID) ==
    LET Unsolved(p) == ~ IsSolved(table, userID, p)
    IN  SelectSeq(PlanSetPuzzles, Unsolved)

ActiveCycleNumbers(cyclesTable) ==
    { k \in 1..Len(cyclesTable) : cyclesTable[k].status = "active" }

OpenSessionNumbers(sessionsTable, cycleID) ==
    { k \in 1..Len(sessionsTable) :
        sessionsTable[k].cycle_id = cycleID
            /\ sessionsTable[k].ended_at = NullTime }

\* ceiling of remaining / days, at least 1
SessionTarget(remaining, days) ==
    LET d == IF days < 1 THEN 1 ELSE days
        q == (remaining + d - 1) \div d
    IN  IF q < 1 THEN 1 ELSE q

\* a sweep that ends its run at the first user it fails for
SweepReturns(queue) == <<>>

\* "continue": the loop goes on with the users after the failing one
SweepContinues(queue) == Tail(queue)

\* BuildTodayBatch: the unsolved puzzles of the set in position order,
\* truncated to the target count of the active cycle's open session; the
\* session is opened first when the cycle has none.  No active cycle:
\* nothing to schedule.
BuildTodayBatchUntruncated(progressTable, cyclesTable, sessionsTable, now1, userID) ==
    LET unsolved == UnsolvedPuzzles(progressTable, userID)
    IN  [ todayBatch |-> IF ActiveCycleNumbers(cyclesTable) = {} THEN <<>>
                         ELSE unsolved,
          sessions |-> sessionsTable ]

BuildTodayBatch(progressTable, cyclesTable, sessionsTable, now1, userID) ==
    LET unsolved == UnsolvedPuzzles(progressTable, userID)
        active == ActiveCycleNumbers(cyclesTable)
    IN  IF active = {} THEN [todayBatch |-> <<>>, sessions |-> sessionsTable]
        ELSE LET cycle == cyclesTable[CHOOSE k \in active : \A j \in active : k <= j]
                 open == OpenSessionNumbers(sessionsTable, cycle.id)
                 opened ==
                     IF open # {} THEN sessionsTable
                     ELSE CreateSession(sessionsTable, cycle.id, now1,
                              SessionTarget(Len(unsolved), cycle.target_days))
                 session ==
                     opened[CHOOSE k \in OpenSessionNumbers(opened, cycle.id) :
                               \A j \in OpenSessionNumbers(opened, cycle.id) : k <= j]
                 count == IF session.target_count < Len(unsolved)
                          THEN session.target_count ELSE Len(unsolved)
             IN  [ todayBatch |-> SubSeq(unsolved, 1, count),
                   sessions |-> opened ]

\* the stores a run can find
PlanRowOf(id, userID, active) ==
    [ id |-> id, user_id |-> userID, todayBatch |-> <<>>, active |-> active,
      updated_at |-> 1 ]

PlanTables ==
    { <<>>,
      << PlanRowOf(1, "alice", 1) >>,
      << PlanRowOf(1, "alice", 0) >>,
      << PlanRowOf(1, DefaultUser, 1), PlanRowOf(2, "alice", 1) >> }

\* progress after default_user has solved p4 on the second attempt
PlanSolvedStore ==
    LET typed == CHOOSE t \in TypedRequests : Len(t.sans) = 3
        response == gradeLine(PuzzleTable["p4"], typed.sans)
        first == saveProgress(<<>>, 1, DefaultUser, "p4", typed.sans, typed.nil,
                              response.Score, response.DepthMatched)
    IN  saveProgress(first, 1, DefaultUser, "p4", typed.sans, typed.nil,
                     response.Score, response.DepthMatched)

PlanProgressTables == { <<>>, PlanSolvedStore }

PlanCycleTables ==
    { seedDemoSet(<<>>),
      CreateCycle(seedDemoSet(<<>>), 1, 2, 1, "active") }

PlanSessionTables ==
    { <<>> } \cup { CreateSession(<<>>, 2, 1, n) : n \in TargetCounts }

InitPlan ==
    /\ NormIdle /\ GradeIdle /\ RaceIdle /\ LegacyIdle /\ DevIdle /\ BoardIdle
    /\ progress \in PlanProgressTables
    /\ now = 1 /\ served = 0 /\ httpStatus = 0 /\ httpBody = ZeroResponse
    /\ recorded = [pr \in Pairs |-> NoCalls]
    /\ fault = FALSE
    /\ cycles \in PlanCycleTables
    /\ sessions \in PlanSessionTables
    /\ dailyPlans \in PlanTables
    /\ sweep = NoSweep
    /\ lazy = NoLazy

\* the sweep after it logged an error for user u
SweepFailed(sw, u, table) ==
    [ sw EXCEPT !.failed = @ \cup {u},
                !.atFail = [@ EXCEPT ![u] = PlanRowsOf(table, u)],
                !.queue = SweepContinues(@),
                !.pc = IF SweepContinues(sw.queue) = <<>> THEN "done"
                       ELSE "select" ]

\* the sweep after user u's iteration ended without an error
SweepServed(sw) ==
    [ sw EXCEPT !.queue = Tail(@),
                !.pc = IF Tail(sw.queue) = <<>> THEN "done" ELSE "select" ]

\* the cron job fires: the users are listed, or the run returns on an error
SweepStart(selectFails) ==
    /\ sweep.pc \in {"idle", "done"}
    /\ sweep.runs < MaxSweeps
    /\ sweep' =
         IF selectFails
         THEN [ NoSweep EXCEPT !.pc = "done", !.runs = sweep.runs + 1,
                               !.aborted = TRUE ]
         ELSE [ NoSweep EXCEPT !.pc = "select", !.runs = sweep.runs + 1,
                               !.queue = SweepUsers(dailyPlans),
                               !.listed = { SweepUsers(dailyPlans)[i] :
                                             i \in 1..Len(SweepUsers(dailyPlans)) } ]
    /\ UNCHANGED <<normVars, gradeVars, storeVars, raceVars, trainerVars,
                   dailyPlans, lazy, legacyVars, devVars, boardVars, traceVars>>

\* GetOrCreateDailyPlan, the read: is there a plan for the user
SweepSelect(fails) ==
    /\ sweep.pc = "select"
    /\ LET u == Head(sweep.queue)
           sw == [ sweep EXCEPT !.visited = @ \cup {u},
                                !.before = [@ EXCEPT ![u] = PlanRowsOf(dailyPlans, u)] ]
       IN  sweep' =
             IF fails THEN SweepFailed(sw, u, dailyPlans)
             ELSE [ sw EXCEPT !.pc = IF PlanRowNumbersOf(dailyPlans, u) # {}
                                     THEN "build" ELSE "insert" ]
    /\ UNCHANGED <<normVars, gradeVars, storeVars, raceVars, trainerVars,
                   dailyPlans, lazy, legacyVars, devVars, boardVars, traceVars>>

\* GetOrCreateDailyPlan, the create: a plan with an empty batch
SweepInsert(fails) ==
    /\ sweep.pc = "insert"
    /\ LET u == Head(sweep.queue)
           refused == PlanRowNumbersOf(dailyPlans, u) # {}
       IN  IF fails \/ refused
           THEN /\ dailyPlans' = dailyPlans
                /\ sweep' = SweepFailed([sweep EXCEPT !.refused = @ \/ refused],
                                        u, dailyPlans)
           ELSE /\ dailyPlans' = InsertPlan(dailyPlans,
                                     NewPlanRow(dailyPlans, now, u, <<>>))
                /\ sweep' = [sweep EXCEPT !.pc = "build"]
    /\ UNCHANGED <<normVars, gradeVars, storeVars, raceVars, trainerVars,
                   lazy, legacyVars, devVars, boardVars, traceVars>>

\* BuildTodayBatch and the UPDATE of the user's plan
SweepBuildAndWrite(buildFails, writeFails) ==
    /\ sweep.pc = "build"
    /\ LET u == Head(sweep.queue)
           built == BuildTodayBatch(progress, cycles, sessions, now, u)
       IN  IF buildFails
           THEN /\ sweep' = SweepFailed(sweep, u, dailyPlans)
                /\ UNCHANGED <<dailyPlans, sessions>>
           ELSE IF writeFails
           THEN /\ sweep' = SweepFailed(sweep, u, dailyPlans)
                /\ sessions' = built.sessions
                /\ UNCHANGED dailyPlans
           ELSE /\ sweep' = SweepServed(sweep)
                /\ sessions' = built.sessions
                /\ dailyPlans' = UpdatePlan(dailyPlans, now, u, built.todayBatch)
    /\ UNCHANGED <<normVars, gradeVars, storeVars, raceVars, cycles, lazy,
                   legacyVars, devVars, boardVars, traceVars>>

\* handleDailyStatus, the read: is there a plan for default_user
LazySelect ==
    /\ lazy.pc = "idle"
    /\ lazy.calls < MaxLazy
    /\ lazy' = [ lazy EXCEPT !.pc = "selected", !.calls = @ + 1,
                             !.found = PlanRowNumbersOf(dailyPlans, DefaultUser) # {} ]
    /\ UNCHANGED <<normVars, gradeVars, storeVars, raceVars, trainerVars,
                   dailyPlans, sweep, legacyVars, devVars, boardVars, traceVars>>

\* handleDailyStatus, the build when no plan was found
LazyBuild ==
    /\ lazy.pc = "selected"
    /\ LET built == BuildTodayBatch(progress, cycles, sessions, now, DefaultUser)
           refused == PlanRowNumbersOf(dailyPlans, DefaultUser) # {}
       IN  IF lazy.found
           THEN /\ lazy' = [lazy EXCEPT !.pc = "idle"]
                /\ UNCHANGED <<dailyPlans, sessions>>
           ELSE /\ lazy' = [lazy EXCEPT !.pc = "idle", !.refused = @ \/ refused]
                /\ sessions' = built.sessions
                /\ dailyPlans' = InsertPlan(dailyPlans,
                                     NewPlanRow(dailyPlans, now, DefaultUser,
                                                built.todayBatch))
    /\ UNCHANGED <<normVars, gradeVars, storeVars, raceVars, cycles, sweep,
                   legacyVars, devVars, boardVars, traceVars>>

updateDailyPlans ==
    \/ \E selectFails \in BOOLEAN : SweepStart(selectFails)
    \/ \E fails \in BOOLEAN : SweepSelect(fails)
    \/ \E fails \in BOOLEAN : SweepInsert(fails)
    \/ \E buildFails \in BOOLEAN, writeFails \in BOOLEAN :
           SweepBuildAndWrite(buildFails, writeFails)

handleDailyStatus == LazySelect \/ LazyBuild

NextPlan == updateDailyPlans \/ handleDailyStatus

SpecPlan == InitPlan /\ [][NextPlan]_vars

(***************************************************************************)
(* Two grade-line requests in flight at once                               *)
(***************************************************************************)
RequestNumbers == {1, 2}

\* the store after one earlier, wrong attempt at puzzleID by the handler
StoreAfterWrongAttempt(puzzleID) ==
    LET typed == << <<"d","4">> >>
        response == gradeLine(PuzzleTable[puzzleID], typed)
    IN  [ table |-> saveProgress(<<>>, 1, DefaultUser, puzzleID, typed, FALSE,
                                 response.Score, response.DepthMatched),
          calls |-> [pr \in Pairs |->
                        IF pr = <<DefaultUser, puzzleID>>
                        THEN [ calls |-> 1, score |-> response.Score,
                               typed |-> typed, typedNil |-> FALSE ]
                        ELSE NoCalls] ]

RaceStores ==
    { [table |-> <<>>, calls |-> [pr \in Pairs |-> NoCalls]] }
        \cup { StoreAfterWrongAttempt(p) : p \in PuzzleIds }

InitRace ==
    /\ NormIdle /\ GradeIdle /\ TrainerIdle /\ PlanIdle /\ LegacyIdle /\ DevIdle /\ BoardIdle
    /\ \E store \in RaceStores :
          /\ progress = store.table
          /\ recorded = store.calls
    /\ now = 1 /\ served = 0 /\ httpStatus = 0 /\ httpBody = ZeroResponse
    /\ fault = FALSE
    /\ reqs \in [ RequestNumbers ->
                    [ pc : {"start"}, puzzleID : PuzzleIds,
                      typed : TypedRequests, response : {ZeroResponse},
                      found : {FALSE}, logged : {FALSE} ] ]

\* handleGradeLine up to the SELECT of saveProgress
RaceSelect(r) ==
    /\ reqs[r].pc = "start"
    /\ reqs' = [reqs EXCEPT ![r] =
                   [ @ EXCEPT
                       !.pc = "selected",
                       !.response = gradeLine(PuzzleTable[reqs[r].puzzleID],
                                             reqs[r].typed.sans),
                       !.found = ProgressRowsOf(progress, DefaultUser,
                                                reqs[r].puzzleID) # {} ]]
    /\ UNCHANGED <<normVars, gradeVars, storeVars, trainerVars, planVars,
                   legacyVars, devVars, boardVars, traceVars>>

\* the INSERT or UPDATE of saveProgress, and the answer
RaceExec(r) ==
    /\ reqs[r].pc = "selected"
    /\ LET rq == reqs[r]
           typedJSON == jsonMarshal(rq.typed.sans, rq.typed.nil)
           refused == ~ rq.found
                        /\ ProgressRowsOf(progress, DefaultUser, rq.puzzleID) # {}
       IN  /\ progress' =
                 IF ~ rq.found
                 THEN InsertProgress(progress,
                          NewProgressRow(progress, now, DefaultUser, rq.puzzleID,
                                         typedJSON, rq.response.Score))
                 ELSE UpdateProgress(progress, now, DefaultUser, rq.puzzleID,
                                     typedJSON, rq.response.Score,
                                     rq.response.DepthMatched)
           /\ reqs' = [reqs EXCEPT ![r] = [@ EXCEPT !.pc = "done",
                                                    !.logged = refused]]
           /\ recorded' = [recorded EXCEPT ![<<DefaultUser, rq.puzzleID>>] =
                              [ calls |-> @.calls + 1,
                                score |-> rq.response.Score,
                                typed |-> rq.typed.sans,
                                typedNil |-> rq.typed.nil ]]
           /\ httpStatus' = 200
           /\ httpBody' = rq.response
    /\ UNCHANGED <<normVars, gradeVars, now, served, fault, trainerVars,
                   planVars, legacyVars, devVars, boardVars, traceVars>>

NextRace == (\E r \in RequestNumbers : RaceSelect(r) \/ RaceExec(r)) \/ Tick

SpecRace == InitRace /\ [][NextRace]_vars

(***************************************************************************)
(* Properties of saveProgress                                              *)
(***************************************************************************)
\* C10: after n >= 1 record calls for a (user, puzzle) pair the pair has
\* exactly one progress row, with attempts = n and with the score and the
\* typed list of the last call, be that score higher or lower than before.
C10_LastAttemptWins ==
    \A pr \in Pairs :
        recorded[pr].calls >= 1 =>
            LET rows == ProgressRowsOf(progress, pr[1], pr[2])
            IN  /\ Cardinality(rows) = 1
                /\ \A k \in rows :
                      /\ progress[k].attempts = recorded[pr].calls
                      /\ progress[k].score = recorded[pr].score
                      /\ progress[k].typed_json =
                             jsonMarshal(recorded[pr].typed, recorded[pr].typedNil)

\* a third call for the four-move puzzle, wrong from its first move, after
\* a call that matched three moves or more
C10_Witness ==
    /\ recorded[<<DefaultUser, "p4">>].calls = 3
    /\ \E k \in 1..Len(progress) :
          /\ progress[k].puzzle_id = "p4"
          /\ progress[k].attempts = 3
          /\ progress[k].score = 0
          /\ progress[k].solved_at # NullTime
          /\ progress[k].typed_json = <<"[", "\"", "d", "4", "\"", "]">>


\* C11: solvedAt is set at most once per (user, puzzle) pair: once a row's
\* solved_at is non-null, no later record call changes it.
C11_SolvedAtSetOnce ==
    [][ \A k \in 1..Len(progress) :
            progress[k].solved_at # NullTime
                => progress'[k].solved_at = progress[k].solved_at ]_vars

\* the puzzle whose progress the step records, if the step is a record call
RecordedInStep(puzzleID) ==
    recorded'[<<DefaultUser, puzzleID>>].calls
        = recorded[<<DefaultUser, puzzleID>>].calls + 1

\* C12: a record call sets solvedAt only if its depthMatched reaches the
\* full length of the puzzle's solution line, and a call on an unsolved row
\* that matches the full line, of a short puzzle too, sets it.
C12_SolvedAtFullLine ==
    [][ \A k \in 1..Len(progress) :
            LET line == PuzzleTable[progress[k].puzzle_id]
            IN  (progress[k].solved_at = NullTime
                    /\ RecordedInStep(progress[k].puzzle_id))
                => (progress'[k].solved_at # NullTime
                       <=> httpBody'.DepthMatched >= Len(line)) ]_vars

\* the step answers a grade-line request
RequestAnswered == served' = served + 1

\* C22: a decoded grade-line request without a puzzle ID is answered 400,
\* one naming a puzzle that does not exist is answered 404; in both cases
\* no grade response is written and the progress table stays as it was.
C22_BadRequestsLeaveNoTrace ==
    [][ (RequestAnswered /\ httpReq'.decoded /\ httpReq'.puzzleID \notin PuzzleIds)
           => /\ httpStatus' = IF httpReq'.puzzleID = "" THEN 400 ELSE 404
              /\ httpBody' = httpBody
              /\ progress' = progress
              /\ recorded' = recorded ]_vars

\* a request for an unknown puzzle answered after progress was recorded
C22_Witness ==
    /\ httpReq.decoded /\ httpReq.puzzleID = "p9"
    /\ httpStatus = 404
    /\ progress # <<>>

\* C29: progress is per user: answering a grade-line request leaves every
\* row of a user other than the one who sent it as it was, and a row it
\* creates belongs to the sender.
C29_ProgressPerUser ==
    [][ RequestAnswered =>
          /\ Len(progress') >= Len(progress)
          /\ \A k \in 1..Len(progress) :
                progress[k].user_id # httpReq'.requester
                    => progress'[k] = progress[k]
          /\ \A k \in (Len(progress) + 1)..Len(progress') :
                progress'[k].user_id = httpReq'.requester ]_vars

\* C30: after a record call whose depthMatched meets the solved threshold
\* the pair's row has solved_at set, also when the call created the row.
C30_SolvedAtSetOnFirstAttempt ==
    [][ \A puzzleID \in PuzzleIds :
          (RecordedInStep(puzzleID) /\ httpBody'.DepthMatched >= SolvedDepth)
              => \A k \in ProgressRowsOf(progress', DefaultUser, puzzleID) :
                     progress'[k].solved_at # NullTime ]_vars

\* C13: two grade-line requests recording the same (user, puzzle) pair at
\* once both take effect: afterwards the pair has one row whose attempts
\* counts both (and every earlier) call, and no INSERT was refused.
C13_ConcurrentRecordsBothCount ==
    ( /\ \A r \in RequestNumbers : reqs # <<>> /\ reqs[r].pc = "done"
      /\ reqs[1].puzzleID = reqs[2].puzzleID )
    => LET rows == ProgressRowsOf(progress, DefaultUser, reqs[1].puzzleID)
       IN  /\ Cardinality(rows) = 1
           /\ \A k \in rows :
                 progress[k].attempts
                     = recorded[<<DefaultUser, reqs[1].puzzleID>>].calls
           /\ \A r \in RequestNumbers : ~ reqs[r].logged

\* C14: a storage failure while a grade-line request records the attempt
\* is answered with a 5xx status.
C14_StorageFailureIs5xx ==
    fault => httpStatus >= 500

C16_OneActivePlanPerUser ==
    \A u \in Users :
        Cardinality({ k \in PlanRowNumbersOf(dailyPlans, u) :
                        dailyPlans[k].active = 1 }) <= 1

\* the sweep and an on-access build both found no plan for default_user
\* and both went on to create one
C16_Witness ==
    /\ sweep.refused \/ lazy.refused
    /\ PlanRowNumbersOf(dailyPlans, DefaultUser) # {}

NoDuplicates(seq) ==
    \A i \in 1..Len(seq) : \A j \in 1..Len(seq) : seq[i] = seq[j] => i = j

\* C17: every persisted daily plan has a todayBatch no longer than the
\* open session's targetCount, holding no puzzle the user has solved and
\* no puzzle twice.
C17_BatchWithinTarget ==
    \A k \in 1..Len(dailyPlans) :
        LET batch == dailyPlans[k].todayBatch
        IN  /\ batch # <<>> =>
                 \E c \in ActiveCycleNumbers(cycles) :
                     \E n \in OpenSessionNumbers(sessions, cycles[c].id) :
                         Len(batch) <= sessions[n].target_count
            /\ \A i \in 1..Len(batch) :
                  ~ IsSolved(progress, dailyPlans[k].user_id, batch[i])
            /\ NoDuplicates(batch)

\* a persisted batch cut short by the target count, or by a solved puzzle
C17_Witness ==
    \E k \in 1..Len(dailyPlans) :
        /\ dailyPlans[k].todayBatch # <<>>
        /\ Len(dailyPlans[k].todayBatch) < Len(PlanSetPuzzles)
        /\ \/ IsSolved(progress, dailyPlans[k].user_id, "p4")
           \/ Len(UnsolvedPuzzles(progress, dailyPlans[k].user_id))
                  > Len(dailyPlans[k].todayBatch)

(***************************************************************************)
(* Properties of the trainer endpoints                                     *)
(***************************************************************************)
ActiveCyclesOf(setID) ==
    { k \in 1..Len(cycles) :
        cycles[k].set_id = setID /\ cycles[k].status = "active" }

OpenSessionsOf(cycleID) ==
    { k \in 1..Len(sessions) :
        sessions[k].cycle_id = cycleID /\ sessions[k].ended_at = NullTime }

\* C18: after any sequence of cycle creations and updates, each set has at
\* most one cycle with status 'active'.
C18_OneActiveCyclePerSet ==
    \A setID \in SetIds : Cardinality(ActiveCyclesOf(setID)) <= 1

\* C19: after any sequence of session creations and updates, each cycle
\* has at most one open session (ended_at null).
C19_OneOpenSessionPerCycle ==
    \A k \in 1..Len(cycles) : Cardinality(OpenSessionsOf(cycles[k].id)) <= 1

\* C27: once a session has been ended (ended_at not null) it stays ended:
\* no session update request makes its ended_at null again.
C27_EndedStaysEnded ==
    [][\A k \in 1..Len(sessions) :
          sessions[k].ended_at # NullTime => sessions'[k].ended_at # NullTime]_vars

(***************************************************************************)
(* Properties of the legacy board                                          *)
(***************************************************************************)
\* C28: after any sequence of accepted moves, captures included, a
\* new-game or reset request puts the whole game back to its start-up
\* state: initial placement, white to move, GameOver false, empty move
\* history and empty captured-piece lists for both colours.
C28_NewGameRestoresStartUp ==
    gameReq.path \in {"/api/new-game", "/api/reset"} => game = initializeGame

(***************************************************************************)
(* Properties of the graders on nodes without a move                       *)
(***************************************************************************)
\* C21: no grader matches a solution node whose move is empty: gradeLine
\* matches none among the first depthMatched nodes, gradeSolution records
\* none in matchedLine, and GradeFirstMove answers correct only for a
\* first played move that some root carries as a non-empty move.
C21_EmptyNodeNeverMatched ==
    /\ glPc = "graded" =>
          \A i \in 1..glResp.DepthMatched : glLines[i].SAN # <<>>
    /\ lgPc = "graded" =>
          \A i \in 1..Len(lgResult.matchedLine) : lgResult.matchedLine[i] # <<>>
    /\ (dvPc = "graded" /\ dvOk) =>
          \E i \in 1..Len(lgForest) :
              lgForest[i].SAN # <<>> /\ lgForest[i].SAN = lgPlayed[1]

(***************************************************************************)
(* Properties of gradeSolution                                             *)
(***************************************************************************)
LegacyGraded == lgPc = "graded"

\* the first line of lines, in authored order, with a move and that move
\* equal to san; 0 when there is none
FirstMatchingSibling(lines, san) ==
    LET hits == { i \in 1..Len(lines) :
                    lines[i].SAN # <<>> /\ lines[i].SAN = san }
    IN  IF hits = {} THEN 0 ELSE CHOOSE i \in hits : \A j \in hits : i <= j

\* the moves matched by a walk that takes the first matching sibling at
\* each depth and never returns to a later one
RECURSIVE FirstSiblingWalk(_, _, _)
FirstSiblingWalk(lines, playedSAN, depth) ==
    IF depth >= Len(playedSAN) THEN <<>>
    ELSE LET i == FirstMatchingSibling(lines, playedSAN[depth + 1])
         IN  IF i = 0 THEN <<>>
             ELSE <<lines[i].SAN>>
                      \o FirstSiblingWalk(lines[i].Children, playedSAN, depth + 1)

\* some path of lines with moves, from lines down, spells playedSAN from
\* depth on
RECURSIVE SpellsPath(_, _, _)
SpellsPath(lines, playedSAN, depth) ==
    \E i \in 1..Len(lines) :
        /\ lines[i].SAN # <<>>
        /\ lines[i].SAN = playedSAN[depth + 1]
        /\ \/ depth + 1 >= Len(playedSAN)
           \/ SpellsPath(lines[i].Children, playedSAN, depth + 1)

RECURSIVE PathTickCounts(_, _, _)
PathTickCounts(lines, moves, depth) ==
    IF depth >= Len(moves) THEN {0}
    ELSE UNION { { t + (IF lines[i].IsTick THEN 1 ELSE 0) :
                     t \in PathTickCounts(lines[i].Children, moves, depth + 1) } :
                 i \in { j \in 1..Len(lines) :
                           lines[j].SAN # <<>> /\ lines[j].SAN = moves[depth + 1] } }

\* C25: the score is the number of tick nodes on the path returned in
\* matchedLine, so it never exceeds the length of matchedLine; ticks of a
\* branch abandoned after a deeper mismatch are not counted.
C25_ScoreCountsPathTicks ==
    LegacyGraded =>
        /\ lgResult.score <= Len(lgResult.matchedLine)
        /\ lgResult.score \in PathTickCounts(lgForest, lgResult.matchedLine, 0)

\* some root with a move carries the first played move
FirstMoveIsRootMove ==
    /\ lgPlayed # <<>>
    /\ \E i \in 1..Len(lgForest) :
          lgForest[i].SAN # <<>> /\ lgForest[i].SAN = lgPlayed[1]

\* C26: GradeFirstMove and gradeSolution give the same correct verdict:
\* true exactly when the first played move is the move of some root node
\* that has a move.
C26_SameFirstMoveVerdict ==
    (LegacyGraded /\ dvPc = "graded") =>
        /\ lgResult.correct = dvOk
        /\ dvOk = FirstMoveIsRootMove

\* both graders say correct although the played line is in no branch
C26_Witness ==
    /\ LegacyGraded /\ dvPc = "graded"
    /\ dvOk /\ lgResult.correct
    /\ Len(lgPlayed) = 2
    /\ ~ SpellsPath(lgForest, lgPlayed, 0)

(***************************************************************************)
(* Properties of gradeLine                                                 *)
(***************************************************************************)
Graded == glPc = "graded"

\* typed move i (from 0) is the move of solution node i, up to spelling
SameMoveAt(i) ==
    /\ i < Len(glLines)
    /\ i < Len(glTyped)
    /\ normalizeSAN(glTyped[i + 1]) = normalizeSAN(glLines[i + 1].SAN)

\* the tick nodes among the matched solution nodes from index lo on
MatchedTicksFrom(lo) ==
    { i \in lo..(glResp.DepthMatched - 1) : glLines[i + 1].IsTick }

\* C1: the score is 0 when correct is false and 1 plus the number of
\* entries of ticksMatched otherwise.
C1_ScoreFormula ==
    Graded =>
        glResp.Score = IF glResp.Correct THEN 1 + Len(glResp.TicksMatched) ELSE 0

C1_Witness ==
    /\ Graded
    /\ glResp.Correct
    /\ glResp.TicksMatched = <<0, 2>>
    /\ glResp.Score = 3

\* the case C2 singles out: the first typed move matches a first node that
\* is a tick and the second typed move does not match the second node
OpeningTickThenMistake ==
    /\ Len(glLines) >= 2 /\ Len(glTyped) >= 2
    /\ SameMoveAt(0) /\ glLines[1].IsTick
    /\ ~ SameMoveAt(1)

\* C2 as stated: the score is one point for a correct opening move plus one
\* point for each matched tick at index >= 1; after a matched opening tick
\* and a wrong second move the result is correct, score 1, earliestMistake
\* 1, depthMatched 1.
C2_ScoreTicksAfterOpening ==
    Graded =>
        /\ glResp.Score = (IF glResp.Correct THEN 1 ELSE 0)
                              + Cardinality(MatchedTicksFrom(1))
        /\ OpeningTickThenMistake =>
              /\ glResp.Correct /\ glResp.Score = 1
              /\ glResp.EarliestMistake = 1 /\ glResp.DepthMatched = 1

\* C2 as amended: the score is one point for a correct opening move plus
\* one point for each matched tick, the opening move included when it is a
\* tick; after a matched opening tick and a wrong second move the result is
\* correct, score 2, earliestMistake 1, depthMatched 1.
C2_ScoreTicksFromOpening ==
    Graded =>
        /\ glResp.Score = (IF glResp.Correct THEN 1 ELSE 0)
                              + Cardinality(MatchedTicksFrom(0))
        /\ OpeningTickThenMistake =>
              /\ glResp.Correct /\ glResp.Score = 2
              /\ glResp.EarliestMistake = 1 /\ glResp.DepthMatched = 1

C2_Witness ==
    /\ Graded
    /\ OpeningTickThenMistake
    /\ glResp.Score = 2

\* the typed list is, spelled alike, the first Len(glTyped) solution moves
TypedIsSolutionPrefix ==
    /\ Len(glTyped) <= Len(glLines)
    /\ \A k \in 1..Len(glTyped) : glTyped[k] = glLines[k].SAN

\* C3: grading the first k moves of the solution, 0 <= k <= len(solution),
\* gives depthMatched = k and no earliestMistake.
C3_PrefixFullyMatched ==
    (Graded /\ TypedIsSolutionPrefix) =>
        /\ glResp.DepthMatched = Len(glTyped)
        /\ glResp.EarliestMistake = NilIndex

C3_Witness ==
    /\ Graded
    /\ TypedIsSolutionPrefix
    /\ Len(glTyped) = Len(glLines)
    /\ glResp.DepthMatched = MaxSol

\* C4: correct holds exactly when typed is non-empty and its first move
\* normalizes to the first solution move; when correct is false the score
\* and depthMatched are 0 and no tick is matched.
C4_CorrectIsFirstMove ==
    Graded =>
        /\ glResp.Correct <=> SameMoveAt(0)
        /\ ~ glResp.Correct =>
              /\ glResp.Score = 0
              /\ glResp.DepthMatched = 0
              /\ glResp.TicksMatched = <<>>

C4_Witness ==
    /\ Graded
    /\ glTyped # <<>> /\ glTyped[1] = <<"E","4","+">>
    /\ glResp.Correct

\* the indices (from 0) of the typed moves that do not match
UnmatchedIndices == { i \in 0..(Len(glTyped) - 1) : ~ SameMoveAt(i) }

\* C5: earliestMistake is nil exactly when every typed move matched;
\* otherwise it is the index of the first typed move that did not match,
\* which is depthMatched, also when that index is len(solution).
C5_EarliestMistake ==
    Graded =>
        /\ glResp.EarliestMistake = NilIndex
              <=> glResp.DepthMatched = Len(glTyped)
        /\ glResp.EarliestMistake # NilIndex =>
              /\ glResp.EarliestMistake = glResp.DepthMatched
              /\ glResp.EarliestMistake \in UnmatchedIndices
              /\ \A i \in UnmatchedIndices : glResp.EarliestMistake <= i

C5_Witness ==
    /\ Graded
    /\ Len(glLines) >= 1 /\ Len(glTyped) > Len(glLines)
    /\ glResp.EarliestMistake = Len(glLines)

\* C23: ticksMatched is the strictly increasing list of the indices below
\* depthMatched whose solution node is a tick: no index at or beyond the
\* first mistake and no index of a non-tick node is in it.
C23_TicksMatchedExact ==
    Graded =>
        /\ \A j \in 1..(Len(glResp.TicksMatched) - 1) :
              glResp.TicksMatched[j] < glResp.TicksMatched[j + 1]
        /\ { glResp.TicksMatched[j] : j \in 1..Len(glResp.TicksMatched) }
              = MatchedTicksFrom(0)

\* a matched non-tick opening, a matched tick, then a mistake on a tick
C23_Witness ==
    /\ Graded
    /\ glResp.EarliestMistake = 2
    /\ glResp.TicksMatched = <<1>>
    /\ Len(glLines) = 3
    /\ ~ glLines[1].IsTick /\ glLines[3].IsTick

\* C24: bestLine is the first depthMatched moves of the solution in the
\* solution's own spelling, so its length is depthMatched.
C24_BestLineCanonical ==
    Graded =>
        /\ Len(glResp.BestLine) = glResp.DepthMatched
        /\ \A i \in 1..glResp.DepthMatched :
              glResp.BestLine[i] = glLines[i].SAN

\* a move matched in another spelling than the solution's
C24_Witness ==
    /\ Graded
    /\ glResp.DepthMatched >= 1
    /\ glTyped[1] = <<"E","4","+">>
    /\ glResp.BestLine[1] = <<"e","4">>

(***************************************************************************)
(* Properties of normalizeSAN                                              *)
(***************************************************************************)
AnnotationChars == {"+", "#", "!", "?"}

\* s with every + # ! ? deleted
DeleteAnnotations(s) == SelectSeq(s, LAMBDA c : c \notin AnnotationChars)

\* s with every = deleted
DeleteEquals(s) == SelectSeq(s, LAMBDA c : c # "=")

CountEquals(s) == Cardinality({k \in 1..Len(s) : s[k] = "="})

\* C6: normalizeSAN is idempotent: normalizing an already normalized
\* string gives the same string.
C6_Idempotent == nsPc = "twice" => nsOut2 = nsOut

\* a run of annotation characters stands directly between two characters
\* a castling token is spelled with
AnnotationSplitsCastling(s) ==
    \E i, j \in 1..Len(s) :
        /\ i + 1 < j
        /\ s[i] \in {"0", "-"} /\ s[j] \in {"0", "-"}
        /\ \A k \in (i + 1)..(j - 1) : s[k] \in AnnotationChars

\* deleting the annotation characters leaves white space at an end of the
\* string that TrimSpace did not see
AnnotationHidesSpace(s) ==
    TrimSpace(DeleteAnnotations(s)) # DeleteAnnotations(TrimSpace(s))

\* C7 as stated: for every input x, normalizeSAN(x) equals normalizeSAN of
\* x lower-cased with every + # ! ? character deleted.
C7_AnnotationsIgnoredEverywhere ==
    nsPc # "in" => nsOut = normalizeSAN(DeleteAnnotations(ToLower(nsIn)))

\* C7 as amended: normalizeSAN ignores letter case, its result holds no
\* + # ! ? character, and it equals normalizeSAN of the lower-cased input
\* with every + # ! ? deleted whenever no annotation run stands between two
\* castling characters and none hides white space at an end of the input.
C7_AnnotationsIgnored ==
    nsPc # "in" =>
        /\ nsOut = normalizeSAN(ToLower(nsIn))
        /\ \A k \in 1..Len(nsOut) : nsOut[k] \notin AnnotationChars
        /\ (~ AnnotationSplitsCastling(nsIn) /\ ~ AnnotationHidesSpace(nsIn))
              => nsOut = normalizeSAN(DeleteAnnotations(ToLower(nsIn)))

C7_Witness ==
    /\ nsPc = "once"
    /\ nsIn = <<"N","f","3","+">>
    /\ nsOut = <<"n","f","3">>

KingsideForm  == <<"o","-","o">>
QueensideForm == <<"o","-","o","-","o">>

\* C8: every spelling of kingside castling (0-0, O-O, any case, with or
\* without a move-number prefix) normalizes to one kingside form, every
\* spelling of queenside castling to one queenside form, and the two forms
\* differ.
C8_CastlingUnified ==
    nsPc # "in" =>
        /\ nsIn \in KingsideInputs  => nsOut = KingsideForm
        /\ nsIn \in QueensideInputs => nsOut = QueensideForm
        /\ KingsideForm # QueensideForm

C8_Witness ==
    /\ nsPc = "once"
    /\ nsIn = <<"1","2",".","0","-","0","-","0">>
    /\ nsOut = QueensideForm

\* C9: an input containing '=' loses exactly one '=' (a single split, the
\* text before the first '=' joined to the text after it), and an input
\* with exactly one '=' normalizes like the same input with the '=' deleted.
C9_PromotionUnified ==
    (nsPc # "in" /\ Contains(nsIn, "=")) =>
        /\ CountEquals(nsOut) = CountEquals(nsIn) - 1
        /\ CountEquals(nsIn) = 1 => nsOut = normalizeSAN(DeleteEquals(nsIn))

=============================================================================
